---- MODULE Spec2Model ----
(***************************************************************************)
(* DocuMentor: the endpoint test pipeline (testers/index.ts,               *)
(* testers/endpoint.ts, testers/schema.ts), the route parser               *)
(* (utils/parser.ts) and the framework adapters (analyzers/).              *)
(*                                                                         *)
(* JavaScript values are records [t |-> type tag, v |-> printed value];    *)
(* an optional field of an object is a sequence of length 0 (absent) or 1. *)
(***************************************************************************)
EXTENDS Integers, Sequences, FiniteSets, TLC

VARIABLES
    endpoints,  \* testApiEndpoints: the input list of ApiEndpoint
    config,     \* testApiEndpoints: the TestConfig
    pc,         \* position of the async function testApiEndpoints
    idx,        \* index (1-based) of the for-of loop over endpoints
    result,     \* the value the awaited testEndpoint resolved with (optional)
    results,    \* testApiEndpoints: const results: EndpointTestResult[]
    inflight,   \* indexes of the endpoints whose axios request is pending
    sent,       \* log of the axios calls made, by endpoint index
    observed,   \* log of what happened to each endpoint's request, in loop order
    report,     \* the value testApiEndpoints resolved with (optional)
    args,       \* arguments of the pending call of a synchronous function
    ret         \* the value that call returned (optional)

vars == <<endpoints, config, pc, idx, result, results, inflight, sent, observed, report, args, ret>>

orchData == <<endpoints, config, idx, result, results, inflight, sent, observed, report>>

callVars == <<args, ret>>

----------------------------------------------------------------------------
(* Bounds *)

MaxEndpoints == 2

MaxParams == 2

----------------------------------------------------------------------------
(* Optional values and JavaScript values *)

None == <<>>

Some(x) == <<x>>

Includes(seq, x) == \E i \in DOMAIN seq : seq[i] = x

Undefined == [t |-> "undefined", v |-> "undefined"]

JsNull == [t |-> "null", v |-> "null"]

JsBool(b) == [t |-> "boolean", v |-> b]

JsNumber(n) == [t |-> "number", v |-> n]

JsString(s) == [t |-> "string", v |-> s]

JsObject(o) == [t |-> "object", v |-> o]

JsArray(a) == [t |-> "array", v |-> a]

\* A JSON-schema object {type: ty}
TypeSchema(ty) == [t |-> "schema", v |-> ty]

\* JavaScript ToBoolean
Truthy(x) ==
    CASE x.t \in {"undefined", "null"} -> FALSE
      [] x.t = "boolean" -> x.v = "true"
      [] x.t = "number" -> x.v \notin {"0", "NaN"}
      [] x.t = "string" -> x.v # ""
      [] OTHER -> TRUE

\* a || b
Or(a, b) == IF Truthy(a) THEN a ELSE b

\* JavaScript typeof
TypeOf(x) ==
    CASE x.t \in {"null", "array", "schema"} -> "object"
      [] OTHER -> x.t

\* Array.isArray
IsArray(x) == x.t = "array"

----------------------------------------------------------------------------
(* The canonical endpoint model (utils/types) *)

\* a Parameter with its optional example and schema
ParameterWith(name, type, required, in, example, schema) ==
    [name |-> name, type |-> type, required |-> required, in |-> in,
     example |-> example, schema |-> schema]

Parameter(name, type, required, in) ==
    ParameterWith(name, type, required, in, Undefined, Undefined)

Response(statusCode, schema) == [statusCode |-> statusCode, schema |-> schema]

Endpoint(path, method, parameters, responses) ==
    [path |-> path, method |-> method, parameters |-> parameters, responses |-> responses]

\* Response schemas: {type: "object"}, {type: "string"}, and a schema the
\* interpreter rejects ({type: "strnig"}).
ObjectSchema == TypeSchema("object")

StringSchema == TypeSchema("string")

MalformedSchema == TypeSchema("strnig")

\* The endpoints the test runs draw their input lists from.
EndpointPool ==
    { Endpoint("/a/:id", "GET", <<Parameter(<<"i", "d">>, "string", TRUE, "path")>>,
               <<Response(400, Undefined)>>),
      Endpoint("/b", "POST", <<>>,
               <<Response(201, ObjectSchema), Response(400, JsNull),
                 Response(500, StringSchema)>>),
      Endpoint("/d", "PUT", <<>>,
               <<Response(200, MalformedSchema), Response(201, StringSchema)>>) }

\* Status codes and bodies a server may answer with.
StatusCodes == {200, 201, 400, 500}

Bodies == { JsString(""), JsString("ok"), JsObject("{}") }

\* Messages of the errors axios rejects with: a timeout, and an Error whose
\* message is the empty string (new Error(), the AggregateError of refused
\* connects).
TransportErrors == { "timeout of 5000ms exceeded", "" }

\* Date.now() differences; no branch of the code reads the value.
ElapsedTimes == { 12 }

\* What the network delivers for one request.
Received(status, data, elapsed) ==
    [kind |-> "response", status |-> status, data |-> data, elapsed |-> elapsed, message |-> ""]

Rejected(message) ==
    [kind |-> "error", status |-> 0, data |-> Undefined, elapsed |-> 0, message |-> message]

\* No request was made: building it threw.
Unsent(message) ==
    [kind |-> "unsent", status |-> 0, data |-> Undefined, elapsed |-> 0, message |-> message]

----------------------------------------------------------------------------
(* testers/schema.ts: validateResponseSchema *)

JsonSchemaTypes == {"object", "array", "string", "number", "integer", "boolean", "null"}

\* ajv.compile throws on a schema that is not a valid JSON schema
AjvCompileThrows(schema) == schema.t # "schema" \/ schema.v \notin JsonSchemaTypes

\* validate(data) of a compiled {type: ty} schema
AjvValidate(schema, data) ==
    CASE schema.v = "integer" -> data.t = "number"
      [] OTHER -> data.t = schema.v

\* validate.errors of a failed validation (allErrors: true)
AjvErrors(schema, data) == << [keyword |-> "type", message |-> schema.v] >>

\* the message of the error ajv.compile throws
AjvCompileError(schema) == << [keyword |-> "compile", message |-> "schema is invalid"] >>

SchemaValidationResult(endpoint, valid, errors) ==
    [endpoint |-> endpoint, valid |-> valid, errors |-> errors]

\* endpoint.responses.find(r => r.statusCode === statusCode)
FindResponse(endpoint, statusCode) ==
    LET hits == { i \in DOMAIN endpoint.responses :
                    endpoint.responses[i].statusCode = statusCode }
    IN  IF hits = {} THEN None
        ELSE Some(endpoint.responses[CHOOSE i \in hits : \A j \in hits : i <= j])

\* variant of NoSchemaDefined: the schema is compared with undefined only
NoSchemaDefinedStrict(responseDefinition) ==
    responseDefinition = None \/ responseDefinition[1].schema = Undefined

\* !responseDefinition || !responseDefinition.schema
NoSchemaDefined(responseDefinition) ==
    responseDefinition = None \/ ~Truthy(responseDefinition[1].schema)

validateResponseSchema(endpoint, statusCode, responseBody) ==
    LET responseDefinition == FindResponse(endpoint, statusCode)
    IN  IF NoSchemaDefined(responseDefinition)
        THEN SchemaValidationResult(endpoint, TRUE, None)
        ELSE LET schema == responseDefinition[1].schema
             IN  IF AjvCompileThrows(schema)
                 THEN SchemaValidationResult(endpoint, FALSE, Some(AjvCompileError(schema)))
                 ELSE IF ~AjvValidate(schema, responseBody)
                      THEN SchemaValidationResult(endpoint, FALSE,
                                                  Some(AjvErrors(schema, responseBody)))
                      ELSE SchemaValidationResult(endpoint, TRUE, None)

----------------------------------------------------------------------------
(* testers/schema.ts: validateRequestParams *)

\* params[name]: the supplied value, undefined when the key is absent
Supplied(params, name) == IF name \in DOMAIN params THEN params[name] ELSE Undefined

MissingViolation(name) ==
    [kind |-> "missing", name |-> name, expected |-> "", got |-> ""]

TypeViolation(name, expected, got) ==
    [kind |-> "type", name |-> name, expected |-> expected, got |-> got]

\* endpoint.parameters.filter(p => p.required), those with no value, by name
MissingParams(endpoint, params) ==
    LET missing == SelectSeq(endpoint.parameters,
                             LAMBDA p : p.required /\ Supplied(params, p.name) = Undefined)
    IN  [i \in DOMAIN missing |-> missing[i].name]

\* the type check with the object test reduced to typeof
TypeMismatchTypeofOnly(param, value) ==
    CASE param.type \in {"number", "integer"} -> TypeOf(value) # "number"
      [] param.type = "boolean" -> TypeOf(value) # "boolean"
      [] param.type = "string" -> TypeOf(value) # "string"
      [] param.type = "array" -> ~IsArray(value)
      [] param.type = "object" -> TypeOf(value) # "object"
      [] OTHER -> FALSE

\* the branch of the type check a parameter type selects, and its test
TypeMismatch(param, value) ==
    CASE param.type \in {"number", "integer"} -> TypeOf(value) # "number"
      [] param.type = "boolean" -> TypeOf(value) # "boolean"
      [] param.type = "string" -> TypeOf(value) # "string"
      [] param.type = "array" -> ~IsArray(value)
      [] param.type = "object" ->
            TypeOf(value) # "object" \/ value = JsNull \/ IsArray(value)
      [] OTHER -> FALSE

\* the word the message of a type violation uses for the declared type
ExpectedWord(type) ==
    CASE type \in {"number", "integer"} -> "a number"
      [] type = "boolean" -> "a boolean"
      [] type = "string" -> "a string"
      [] type = "array" -> "an array"
      [] OTHER -> "an object"

\* the forEach over endpoint.parameters collecting typeErrors
TypeErrors(endpoint, params) ==
    LET bad == SelectSeq(endpoint.parameters,
                         LAMBDA p : /\ Supplied(params, p.name) # Undefined
                                    /\ TypeMismatch(p, Supplied(params, p.name)))
    IN  [i \in DOMAIN bad |->
            TypeViolation(bad[i].name, ExpectedWord(bad[i].type),
                          TypeOf(Supplied(params, bad[i].name)))]

validateRequestParams(endpoint, params) ==
    LET missingParams == MissingParams(endpoint, params)
        typeErrors == TypeErrors(endpoint, params)
    IN  IF Len(missingParams) > 0
        THEN SchemaValidationResult(endpoint, FALSE,
                 Some([i \in DOMAIN missingParams |-> MissingViolation(missingParams[i])]))
        ELSE IF Len(typeErrors) > 0
             THEN SchemaValidationResult(endpoint, FALSE, Some(typeErrors))
             ELSE SchemaValidationResult(endpoint, TRUE, None)

----------------------------------------------------------------------------
(* testers/endpoint.ts: testEndpoint *)

StatusError(expected, actual) ==
    [kind |-> "status", expected |-> expected, actual |-> actual,
     message |-> "", violations |-> <<>>]

TransportError(message) ==
    [kind |-> "transport", expected |-> <<>>, actual |-> 0,
     message |-> message, violations |-> <<>>]

SchemaError(violations) ==
    [kind |-> "schema", expected |-> <<>>, actual |-> 0,
     message |-> "", violations |-> violations]

\* endpoint.responses.filter(r => 200 <= r.statusCode < 300).map(r => r.statusCode)
ExpectedSuccessStatus(endpoint) ==
    LET ok == SelectSeq(endpoint.responses,
                        LAMBDA r : r.statusCode >= 200 /\ r.statusCode < 300)
    IN  [i \in DOMAIN ok |-> ok[i].statusCode]

\* variant of SuccessStatusCodes: 200 always counts as a success
SuccessStatusCodesPlus200(endpoint) ==
    IF Includes(ExpectedSuccessStatus(endpoint), 200)
    THEN ExpectedSuccessStatus(endpoint)
    ELSE Append(ExpectedSuccessStatus(endpoint), 200)

SuccessStatusCodes(endpoint) ==
    IF Len(ExpectedSuccessStatus(endpoint)) > 0
    THEN ExpectedSuccessStatus(endpoint)
    ELSE <<200>>

\* variant of ValidateStatus: the default of axios, 2xx only
ValidateStatus2xx(status) == status >= 200 /\ status < 300

\* axiosConfig.validateStatus: () => true
ValidateStatus(status) == TRUE

\* message of the error axios rejects with when validateStatus refuses a status
StatusRejection == "Request failed with status code"

\* the result built after axios resolved (the try block)
CompletedResult(endpoint, response) ==
    LET success == Includes(SuccessStatusCodes(endpoint), response.status)
    IN  [endpoint |-> endpoint,
         success |-> success,
         statusCode |-> Some(response.status),
         responseTime |-> Some(response.elapsed),
         responseBody |-> Some(response.data),
         error |-> IF success THEN None
                   ELSE Some(StatusError(SuccessStatusCodes(endpoint), response.status))]

\* variant of FailedResult: the error message is dropped
FailedResultNoMessage(endpoint, message) ==
    [endpoint |-> endpoint,
     success |-> FALSE,
     statusCode |-> None,
     responseTime |-> None,
     responseBody |-> None,
     error |-> None]

\* the result built in the catch block
FailedResult(endpoint, message) ==
    [endpoint |-> endpoint,
     success |-> FALSE,
     statusCode |-> None,
     responseTime |-> None,
     responseBody |-> None,
     error |-> Some(TransportError(message))]

\* Parameter names, and the strings that are spliced into a URL, are
\* sequences of characters.
\* a string with a lone surrogate, as JSON.parse('"\\ud800"') returns it: one
\* code unit
LoneSurrogate == JsString(<<"\\uD800">>)

\* `test-${param.name}`
TestName(name) == JsString(<<"t", "e", "s", "t", "-">> \o name)

\* config.paramValues[param.name] if there is one, else the example or the
\* literal of the parameter type
getParameterValue(param, cfg) ==
    IF Supplied(cfg.paramValues, param.name) # Undefined
    THEN cfg.paramValues[param.name]
    ELSE CASE param.type = "string" -> Or(param.example, TestName(param.name))
           [] param.type \in {"number", "integer"} -> Or(param.example, JsNumber("123"))
           [] param.type = "boolean" -> Or(param.example, JsBool("true"))
           [] param.type = "array" -> Or(param.example, JsArray("[]"))
           [] param.type = "object" -> Or(param.example, JsObject("{}"))
           [] OTHER -> Or(param.example, TestName(param.name))

\* encodeURIComponent(String(value)) throws URIError on a lone surrogate
EncodeURIComponentThrows(value) == value = LoneSurrogate

URIError == "URI malformed"

\* buildUrl encodes the value of every path and query parameter; the call is
\* inside the try block of testEndpoint
SynthesisThrows(endpoint, cfg) ==
    \E i \in DOMAIN endpoint.parameters :
        /\ endpoint.parameters[i].in \in {"path", "query"}
        /\ EncodeURIComponentThrows(getParameterValue(endpoint.parameters[i], cfg))

----------------------------------------------------------------------------
(* testers/index.ts: testApiEndpoints *)

\* variant of SchemaCheckEnabled: the test of result.success is left out
SchemaCheckEnabledAnyResult(cfg, res) ==
    cfg.validateSchema /\ res.responseBody # None /\ Truthy(res.responseBody[1])

\* config.validateSchema && result.success && result.responseBody
SchemaCheckEnabled(cfg, res) ==
    cfg.validateSchema /\ res.success /\ res.responseBody # None
        /\ Truthy(res.responseBody[1])

\* the result object after the schema step of the loop body
SchemaChecked(cfg, endpoint, res) ==
    IF SchemaCheckEnabled(cfg, res)
    THEN LET schemaResult == validateResponseSchema(endpoint, res.statusCode[1],
                                                    res.responseBody[1])
         IN  IF ~schemaResult.valid
             THEN [res EXCEPT !.success = FALSE,
                              !.error = Some(SchemaError(schemaResult.errors[1]))]
             ELSE res
    ELSE res

\* variant of CanIssue: the next request does not wait for the schema step
CanIssueBeforeSchemaStep == pc \in {"loop", "schema"} /\ idx <= Len(endpoints)

\* the loop has another endpoint to test and nothing of the previous one is pending
CanIssue == pc = "loop" /\ idx <= Len(endpoints)

\* variant of IssueRequest: the placeholders are substituted in endpoint.path
IssueRequestInPlace ==
    /\ CanIssue
    /\ ~SynthesisThrows(endpoints[idx], config)
    /\ endpoints' = [endpoints EXCEPT ![idx].path = "/built"]
    /\ pc' = "awaiting"
    /\ inflight' = inflight \cup {idx}
    /\ sent' = Append(sent, idx)
    /\ UNCHANGED <<config, idx, result, results, observed, report, args, ret>>

\* testEndpoint up to the axios call: the request of endpoints[idx] is sent
IssueRequest ==
    /\ CanIssue
    /\ ~SynthesisThrows(endpoints[idx], config)
    /\ pc' = "awaiting"
    /\ inflight' = inflight \cup {idx}
    /\ sent' = Append(sent, idx)
    /\ UNCHANGED <<endpoints, config, idx, result, results, observed, report, args, ret>>

\* building the request throws: testEndpoint's catch returns, no request is made
SynthesisFailure ==
    /\ CanIssue
    /\ SynthesisThrows(endpoints[idx], config)
    /\ result' = Some(FailedResult(endpoints[idx], URIError))
    /\ observed' = Append(observed, Unsent(URIError))
    /\ pc' = "returned"
    /\ UNCHANGED <<endpoints, config, idx, results, inflight, sent, report, args, ret>>

\* a response arrives: axios resolves when validateStatus accepts the status and
\* rejects otherwise; testEndpoint returns its result either way
ReceiveResponse ==
    /\ pc = "awaiting"
    /\ \E status \in StatusCodes, data \in Bodies, elapsed \in ElapsedTimes :
         LET response == Received(status, data, elapsed)
         IN  /\ result' = Some(IF ValidateStatus(status)
                                THEN CompletedResult(endpoints[idx], response)
                                ELSE FailedResult(endpoints[idx], StatusRejection))
             /\ observed' = Append(observed, response)
    /\ inflight' = inflight \ {idx}
    /\ pc' = "returned"
    /\ UNCHANGED <<endpoints, config, idx, results, sent, report, args, ret>>

\* variant of TransportFailure: the rejection is not caught and ends the run
TransportFailureThrows ==
    /\ pc = "awaiting"
    /\ \E message \in TransportErrors :
         observed' = Append(observed, Rejected(message))
    /\ inflight' = inflight \ {idx}
    /\ pc' = "threw"
    /\ UNCHANGED <<endpoints, config, idx, result, results, sent, report, args, ret>>

\* variant of TransportFailure: the request is made again
TransportFailureRetries ==
    /\ pc = "awaiting"
    /\ \E message \in TransportErrors :
         observed' = Append(observed, Rejected(message))
    /\ inflight' = inflight \ {idx}
    /\ pc' = "loop"
    /\ UNCHANGED <<endpoints, config, idx, result, results, sent, report, args, ret>>

\* axios rejects (connection error, timeout); testEndpoint's catch returns
TransportFailure ==
    /\ pc = "awaiting"
    /\ \E message \in TransportErrors :
         /\ result' = Some(FailedResult(endpoints[idx], message))
         /\ observed' = Append(observed, Rejected(message))
    /\ inflight' = inflight \ {idx}
    /\ pc' = "returned"
    /\ UNCHANGED <<endpoints, config, idx, results, sent, report, args, ret>>

\* variant of RecordResult: results.unshift(result)
RecordResultFirst ==
    /\ pc = "returned"
    /\ results' = <<result[1]>> \o results
    /\ pc' = "schema"
    /\ UNCHANGED <<endpoints, config, idx, result, inflight, sent, observed, report, args, ret>>

\* results.push(result)
RecordResult ==
    /\ pc = "returned"
    /\ results' = Append(results, result[1])
    /\ pc' = "schema"
    /\ UNCHANGED <<endpoints, config, idx, result, inflight, sent, observed, report, args, ret>>

\* the schema step on the pushed result object; the loop moves on
SchemaCheck ==
    /\ pc = "schema"
    /\ results' = [results EXCEPT ![idx] = SchemaChecked(config, endpoints[idx], @)]
    /\ result' = None
    /\ idx' = idx + 1
    /\ pc' = "loop"
    /\ UNCHANGED <<endpoints, config, inflight, sent, observed, report, args, ret>>

\* the loop is over: return results
Finish ==
    /\ pc = "loop"
    /\ idx > Len(endpoints)
    /\ report' = Some(results)
    /\ pc' = "done"
    /\ UNCHANGED <<endpoints, config, idx, result, results, inflight, sent, observed, args, ret>>

EndpointLists == UNION { [1..n -> EndpointPool] : n \in 0..MaxEndpoints }

\* config.paramValues: absent (the empty mapping), or a value for "id"
Configs ==
    [validateSchema : BOOLEAN,
     paramValues : { <<>>, [n \in {<<"i", "d">>} |-> LoneSurrogate] }]

NoCall == args = None /\ ret = None

Init ==
    /\ endpoints \in EndpointLists
    /\ config \in Configs
    /\ pc = "loop"
    /\ idx = 1
    /\ result = None
    /\ results = <<>>
    /\ inflight = {}
    /\ sent = <<>>
    /\ observed = <<>>
    /\ report = None
    /\ NoCall

\* The catch block of the loop body (a second push of a failed result) is not
\* an action: testEndpoint catches every rejection of its own try block and
\* validateResponseSchema catches the interpreter's errors, so for a list of
\* ApiEndpoint objects nothing inside the loop's try block throws.
Next ==
    \/ IssueRequest
    \/ SynthesisFailure
    \/ ReceiveResponse
    \/ TransportFailure
    \/ RecordResult
    \/ SchemaCheck
    \/ Finish

Spec == Init /\ [][Next]_vars

\* the state of a process that runs no test
NoRun ==
    /\ endpoints = <<>>
    /\ config = [validateSchema |-> FALSE, paramValues |-> <<>>]
    /\ idx = 1
    /\ result = None
    /\ results = <<>>
    /\ inflight = {}
    /\ sent = <<>>
    /\ observed = <<>>
    /\ report = None

\* JSON values a response body or a supplied parameter may be
JsonValues ==
    Bodies \cup { JsNull, JsBool("false"), JsNumber("0"), JsNumber("7"), JsArray("[]") }

\* a call validateResponseSchema(endpoint, statusCode, responseBody)
CallValidateResponseSchema ==
    /\ pc = "validateResponseSchema"
    /\ ret' = Some(validateResponseSchema(args.endpoint, args.statusCode, args.responseBody))
    /\ pc' = "return"
    /\ UNCHANGED <<orchData, args>>

InitSchema ==
    /\ NoRun
    /\ pc = "validateResponseSchema"
    /\ args \in [fn : {"validateResponseSchema"}, endpoint : EndpointPool,
                 statusCode : StatusCodes, responseBody : JsonValues]
    /\ ret = None

SpecSchema == InitSchema /\ [][CallValidateResponseSchema]_vars

\* The parameters the endpoints of the parameter checks are built from.
ParameterPool ==
    { Parameter("a", "string", TRUE, "path"),
      Parameter("a", "number", TRUE, "query"),
      Parameter("b", "object", TRUE, "body"),
      Parameter("b", "array", FALSE, "query"),
      Parameter("b", "boolean", FALSE, "header") }

\* parameter lists of an endpoint: no (name, in) pair twice
ParameterLists ==
    { ps \in UNION { [1..n -> ParameterPool] : n \in 0..MaxParams } :
        \A i, j \in DOMAIN ps :
            (ps[i].name = ps[j].name /\ ps[i].in = ps[j].in) => i = j }

SuppliedValues ==
    { Undefined, JsNull, JsBool("true"), JsString("x"), JsNumber("7"), JsArray("[]"), JsObject("{}") }

\* a call validateRequestParams(endpoint, params)
CallValidateRequestParams ==
    /\ pc = "validateRequestParams"
    /\ ret' = Some(validateRequestParams(args.endpoint, args.params))
    /\ pc' = "return"
    /\ UNCHANGED <<orchData, args>>

InitParams ==
    /\ NoRun
    /\ pc = "validateRequestParams"
    /\ \E ps \in ParameterLists, params \in [{"a", "b"} -> SuppliedValues] :
         args = [fn |-> "validateRequestParams",
                 endpoint |-> Endpoint("/p", "GET", ps, <<>>), params |-> params]
    /\ ret = None

SpecParams == InitParams /\ [][CallValidateRequestParams]_vars

\* a run with schema validation enabled
InitLive == Init /\ config.validateSchema

\* the event loop runs every continuation that is ready, and every axios call
\* settles (a response, a connection error, or the timeout)
SpecLive == InitLive /\ [][Next]_vars /\ WF_vars(Next)

----------------------------------------------------------------------------
(* Properties of the test run *)

\* the loop body of endpoint i has completed: its result is in results and the
\* schema step has acted on it
Finalized(i) == i \in 1..Len(results) /\ i < idx

Range(seq) == { seq[i] : i \in DOMAIN seq }

\* S of the success rule: the declared status codes lying in [200,300)
DeclaredSuccess(endpoint) ==
    { r.statusCode : r \in Range(endpoint.responses) } \cap 200..299

SuccessRule(endpoint, status) ==
    IF DeclaredSuccess(endpoint) # {}
    THEN status \in DeclaredSuccess(endpoint)
    ELSE status = 200

\* the body breaks the well-formed schema the endpoint declares for the status
BodyViolatesSchema(endpoint, status, body) ==
    \E r \in Range(endpoint.responses) :
        /\ r.statusCode = status
        /\ r.schema.t = "schema"
        /\ r.schema.v \in JsonSchemaTypes
        /\ body.t # r.schema.v

\* the schema the endpoint declares for the status is not a valid schema
SchemaIsMalformed(endpoint, status) ==
    \E r \in Range(endpoint.responses) :
        /\ r.statusCode = status
        /\ r.schema.t = "schema"
        /\ r.schema.v \notin JsonSchemaTypes

\* C1: the report has exactly one TestResult per input endpoint, and the i-th
\* result refers to the i-th input endpoint, whatever the outcomes were.
C1_OneResultPerEndpointInOrder ==
    pc = "done" =>
        /\ report # None
        /\ Len(report[1]) = Len(endpoints)
        /\ \A i \in 1..Len(endpoints) : report[1][i].endpoint = endpoints[i]

\* C1 witness: a returned report over two different endpoints, the first failed
\* at transport level and the second passed.
C1_Witness ==
    /\ pc = "done"
    /\ Len(endpoints) = 2
    /\ endpoints[1] # endpoints[2]
    /\ observed[1].kind = "error"
    /\ report[1][2].success

\* some endpoint's result is a failure
AnyFailed == \E i \in 1..Len(results) : ~results[i].success

\* the run returned a report with a result for every endpoint
RunDone == pc = "done" /\ report # None /\ Len(report[1]) = Len(endpoints)

\* C2: once the result of an endpoint is a failure (transport error, timeout,
\* status mismatch or schema failure), the run still reaches the end of the
\* list and returns a report with a result for every endpoint.
C2_FailureNeverAbortsRun == AnyFailed ~> RunDone

\* C2 witness: the run is over, endpoint 1 failed and endpoint 2 has its result.
C2_Witness ==
    /\ pc = "done"
    /\ Len(report[1]) = 2
    /\ ~report[1][1].success
    /\ observed[2].kind = "response"

\* C3: the result testEndpoint returns for a received status c has success
\* true iff c is in S when S is non-empty and iff c = 200 when S is empty; a
\* failure carries an error naming the expected codes and the actual one.
C3_SuccessClassification ==
    (pc = "returned" /\ observed[idx].kind = "response") =>
        LET endpoint == endpoints[idx]
            c == observed[idx].status
            r == result[1]
        IN  /\ r.success = SuccessRule(endpoint, c)
            /\ r.success => r.error = None
            /\ ~r.success =>
                 /\ r.error # None
                 /\ r.error[1].kind = "status"
                 /\ r.error[1].actual = c
                 /\ Range(r.error[1].expected) =
                      (IF DeclaredSuccess(endpoint) # {} THEN DeclaredSuccess(endpoint)
                       ELSE {200})

\* C3 witness: responses 201 and 400 with observed 200 fails, naming 201.
C3_Witness ==
    /\ pc = "returned"
    /\ observed[idx].kind = "response"
    /\ observed[idx].status = 200
    /\ DeclaredSuccess(endpoints[idx]) = {201}
    /\ ~result[1].success
    /\ result[1].error[1].expected = <<201>>

\* C4: for an execution that succeeded by status code and whose body violates
\* the schema declared for the observed status, the TestResult keeps
\* success = true when validateSchema is false and ends with success = false
\* when validateSchema is true, for every violating body.
C4_SchemaValidationToggling ==
    \A i \in 1..Len(results) :
        (/\ Finalized(i)
         /\ observed[i].kind = "response"
         /\ SuccessRule(endpoints[i], observed[i].status)
         /\ BodyViolatesSchema(endpoints[i], observed[i].status, observed[i].data))
        => results[i].success = ~config.validateSchema

\* C5: a request that fails at transport level gives a result with
\* success = false, the failure's message as error, and no statusCode,
\* responseTime or responseBody; the failure is data of the run.
C5_TransportFailureIsRecorded ==
    \A i \in 1..Len(results) :
        (Finalized(i) /\ observed[i].kind = "error") =>
            /\ ~results[i].success
            /\ results[i].error # None
            /\ results[i].error[1].kind = "transport"
            /\ results[i].error[1].message = observed[i].message
            /\ results[i].statusCode = None
            /\ results[i].responseTime = None
            /\ results[i].responseBody = None
            /\ results[i].endpoint = endpoints[i]

\* C5 witness: a timed-out request has been recorded and the loop went on.
C5_Witness ==
    /\ Finalized(1)
    /\ observed[1].kind = "error"
    /\ observed[1].message = "timeout of 5000ms exceeded"
    /\ pc = "awaiting"

\* C6: every received status code, 4xx and 5xx included, gives a result with
\* statusCode, responseTime and responseBody recorded, classified by the
\* success rule; it never gives a result without statusCode.
C6_EveryStatusIsAnOutcome ==
    /\ (pc = "returned" /\ observed[idx].kind = "response") =>
            result[1].success = SuccessRule(endpoints[idx], observed[idx].status)
    /\ \A i \in 1..Len(results) :
        observed[i].kind = "response" =>
            /\ results[i].statusCode = Some(observed[i].status)
            /\ results[i].responseTime = Some(observed[i].elapsed)
            /\ results[i].responseBody = Some(observed[i].data)

\* C6 witness: a 400 and a 500 have been received and recorded with their status.
C6_Witness ==
    /\ Finalized(2)
    /\ results[1].statusCode = Some(400)
    /\ results[2].statusCode = Some(500)

\* C7: at most one request is in flight, and the request of an endpoint is
\* issued only when the results of all earlier endpoints, schema step
\* included, have been recorded.
C7_OneRequestAtATime ==
    /\ Cardinality(inflight) <= 1
    /\ \A k, l \in DOMAIN sent : k < l => sent[k] < sent[l]
    /\ \A i \in inflight :
        /\ i = sent[Len(sent)]
        /\ i = idx
        /\ Len(results) = i - 1
        /\ \A j \in 1..(i - 1) : Finalized(j)

\* C7 witness: the request of the second endpoint is in flight.
C7_Witness == inflight = {2} /\ Len(results) = 1

\* C9: when the schema declared for the observed status is malformed, a run
\* with validateSchema enabled ends with that endpoint's result failed.
C9_MalformedSchemaFailsResult ==
    \A i \in 1..Len(results) :
        (/\ Finalized(i)
         /\ config.validateSchema
         /\ observed[i].kind = "response"
         /\ SchemaIsMalformed(endpoints[i], observed[i].status))
        => ~results[i].success

----------------------------------------------------------------------------
(* Properties of the validators *)

Returned(fn) == pc = "return" /\ args.fn = fn /\ ret # None

\* C8: validateResponseSchema returns valid = true with no errors, for every
\* body, when the endpoint declares no response for the status code or the
\* response it declares has no schema (absent or null).
C8_NoSchemaTriviallyValid ==
    Returned("validateResponseSchema") =>
        ( (\A r \in Range(args.endpoint.responses) :
              r.statusCode = args.statusCode => r.schema \in {Undefined, JsNull})
          => (ret[1].valid /\ ret[1].errors = None) )

\* C8 witness: a declared response with a null schema and a body that is no
\* object; and a status the endpoint declares no response for.
C8_Witness ==
    /\ Returned("validateResponseSchema")
    /\ \E r \in Range(args.endpoint.responses) :
           r.statusCode = args.statusCode /\ r.schema = JsNull
    /\ args.responseBody = JsNumber("7")
    /\ ret[1].valid

\* the names of the required parameters that have no supplied value
MissingNames(endpoint, params) ==
    { p.name : p \in { q \in Range(endpoint.parameters) :
                         q.required /\ Supplied(params, q.name) = Undefined } }

\* C10: if a required parameter has no supplied value, validateRequestParams
\* returns invalid with exactly one violation per missing parameter name, all
\* missing names reported, and no type violation.
C10_OneViolationPerMissingName ==
    Returned("validateRequestParams") =>
        LET missing == MissingNames(args.endpoint, args.params)
        IN  missing # {} =>
              /\ ~ret[1].valid
              /\ ret[1].errors # None
              /\ Len(ret[1].errors[1]) = Cardinality(missing)
              /\ \A e \in Range(ret[1].errors[1]) : e.kind = "missing" /\ e.name \in missing
              /\ \A n \in missing : \E e \in Range(ret[1].errors[1]) : e.name = n

\* the JSON kind a declared parameter type stands for
KindOfType(type) ==
    CASE type \in {"number", "integer"} -> "number"
      [] OTHER -> type

\* the parameter entries whose supplied value is not of the declared kind
Mismatching(endpoint, params) ==
    SelectSeq(endpoint.parameters,
              LAMBDA p : /\ Supplied(params, p.name) # Undefined
                         /\ Supplied(params, p.name).t # KindOfType(p.type))

\* C11: when no required parameter is missing, validateRequestParams returns
\* valid iff every supplied value is of its parameter's declared type, and
\* otherwise one type violation per mismatching supplied parameter, in
\* declaration order; an array is not an object, an object is not an array,
\* null is not an object, and a parameter with no value is not checked.
C11_OneViolationPerTypeMismatch ==
    Returned("validateRequestParams") =>
        LET bad == Mismatching(args.endpoint, args.params)
        IN  MissingNames(args.endpoint, args.params) = {} =>
              /\ ret[1].valid <=> bad = <<>>
              /\ ret[1].valid => ret[1].errors = None
              /\ ~ret[1].valid =>
                    /\ ret[1].errors # None
                    /\ Len(ret[1].errors[1]) = Len(bad)
                    /\ \A i \in DOMAIN bad :
                          /\ ret[1].errors[1][i].kind = "type"
                          /\ ret[1].errors[1][i].name = bad[i].name

\* a call with every required value supplied: an array for an object
\* parameter and null for a string parameter, two violations
C11_Witness ==
    /\ Returned("validateRequestParams")
    /\ MissingNames(args.endpoint, args.params) = {}
    /\ \E i, j \in DOMAIN args.endpoint.parameters :
          /\ args.endpoint.parameters[i].type = "object"
          /\ args.endpoint.parameters[j].type = "string"
          /\ args.params["b"] = JsArray("[]")
          /\ args.params["a"] = JsNull
    /\ ~ret[1].valid
    /\ Len(ret[1].errors[1]) = 2

----------------------------------------------------------------------------
(* utils/parser.ts: parseRouteParams.  A path is a sequence of characters. *)

MaxPathLen == 5

\* the characters route paths are written with; "a" and "b" stand for the
\* class [a-zA-Z0-9_]
PathChars == { "/", ":", "{", "}", "a", "b" }

\* [a-zA-Z0-9_]+ is greedy: the position after the run of name characters
\* that starts at position i
RECURSIVE NameEnd(_, _)
NameEnd(path, i) ==
    IF i <= Len(path) /\ path[i] \in {"a", "b"} THEN NameEnd(path, i + 1) ELSE i

\* the exec loop of /:([a-zA-Z0-9_]+)/g from position i: the captures
RECURSIVE ColonMatches(_, _)
ColonMatches(path, i) ==
    IF i > Len(path) THEN <<>>
    ELSE IF path[i] = ":" /\ NameEnd(path, i + 1) > i + 1
         THEN <<SubSeq(path, i + 1, NameEnd(path, i + 1) - 1)>>
                  \o ColonMatches(path, NameEnd(path, i + 1))
         ELSE ColonMatches(path, i + 1)

\* whether /{([a-zA-Z0-9_]+)}/ matches at position i
BracketAt(path, i) ==
    /\ path[i] = "{"
    /\ NameEnd(path, i + 1) > i + 1
    /\ NameEnd(path, i + 1) <= Len(path)
    /\ path[NameEnd(path, i + 1)] = "}"

\* the exec loop of /{([a-zA-Z0-9_]+)}/g from position i: the captures
RECURSIVE BracketMatches(_, _)
BracketMatches(path, i) ==
    IF i > Len(path) THEN <<>>
    ELSE IF BracketAt(path, i)
         THEN <<SubSeq(path, i + 1, NameEnd(path, i + 1) - 1)>>
                  \o BracketMatches(path, NameEnd(path, i + 1) + 1)
         ELSE BracketMatches(path, i + 1)

parseRouteParams(path) == ColonMatches(path, 1) \o BracketMatches(path, 1)

\* a call parseRouteParams(path)
CallParseRouteParams ==
    /\ pc = "parseRouteParams"
    /\ ret' = Some(parseRouteParams(args.path))
    /\ pc' = "return"
    /\ UNCHANGED <<orchData, args>>

InitRoute ==
    /\ NoRun
    /\ pc = "parseRouteParams"
    /\ args \in [fn : {"parseRouteParams"},
                 path : UNION { [1..n -> PathChars] : n \in 0..MaxPathLen }]
    /\ ret = None

SpecRoute == InitRoute /\ [][CallParseRouteParams]_vars

\* the named segments of a path from position i on, of either notation, in
\* the order in which they start
RECURSIVE NamedSegments(_, _)
NamedSegments(path, i) ==
    IF i > Len(path) THEN <<>>
    ELSE IF path[i] = ":" /\ NameEnd(path, i + 1) > i + 1
         THEN <<SubSeq(path, i + 1, NameEnd(path, i + 1) - 1)>>
                  \o NamedSegments(path, NameEnd(path, i + 1))
         ELSE IF BracketAt(path, i)
              THEN <<SubSeq(path, i + 1, NameEnd(path, i + 1) - 1)>>
                       \o NamedSegments(path, NameEnd(path, i + 1) + 1)
              ELSE NamedSegments(path, i + 1)

\* C12: parseRouteParams returns the names of all named segments of the path,
\* written :name or {name}, in the left-to-right order of their occurrence.
C12_ParamsInPathOrder ==
    Returned("parseRouteParams") => ret[1] = NamedSegments(args.path, 1)

\* the same for paths that use one notation only, and for mixed paths whose
\* :name segments all come before the {name} segments
OrderWhenColonsFirst ==
    (/\ Returned("parseRouteParams")
     /\ \A i, j \in DOMAIN args.path :
            (BracketAt(args.path, i) /\ args.path[j] = ":" /\ NameEnd(args.path, j + 1) > j + 1)
                => j < i)
        => ret[1] = NamedSegments(args.path, 1)

----------------------------------------------------------------------------
(* analyzers/express.ts and analyzers/nest.ts: normalizePath *)

\* path.replace(/\/+/g, '/')
RECURSIVE CollapseSlashes(_)
CollapseSlashes(path) ==
    IF Len(path) < 2 THEN path
    ELSE IF path[1] = "/" /\ path[2] = "/"
         THEN CollapseSlashes(Tail(path))
         ELSE <<path[1]>> \o CollapseSlashes(Tail(path))

\* path.replace(/\/$/, '')
DropTrailingSlash(path) ==
    IF Len(path) > 0 /\ path[Len(path)] = "/"
    THEN SubSeq(path, 1, Len(path) - 1)
    ELSE path

\* normalizePath of analyzers/express.ts
normalizePathExpress(path) == CollapseSlashes(path)

\* the two replacements of the NestJS variant in the opposite order
normalizePathNestDropFirst(path) == CollapseSlashes(DropTrailingSlash(path))

\* normalizePath of analyzers/nest.ts
normalizePathNest(path) == DropTrailingSlash(CollapseSlashes(path))

normalizePath(variant, path) ==
    IF variant = "express" THEN normalizePathExpress(path) ELSE normalizePathNest(path)

\* a call normalizePath(path)
CallNormalizePath ==
    /\ pc = "normalizePath"
    /\ ret' = Some(normalizePath(args.variant, args.path))
    /\ pc' = "return"
    /\ UNCHANGED <<orchData, args>>

\* the returned path is normalized once more
NormalizeAgain ==
    /\ pc = "return"
    /\ args.fn = "normalizePath"
    /\ args.round = 1
    /\ args' = [args EXCEPT !.path = ret[1], !.round = 2]
    /\ ret' = None
    /\ pc' = "normalizePath"
    /\ UNCHANGED orchData

InitNormalize ==
    /\ NoRun
    /\ pc = "normalizePath"
    /\ \E variant \in {"express", "nest"},
          path \in UNION { [1..n -> {"/", "a"}] : n \in 0..MaxPathLen } :
         args = [fn |-> "normalizePath", variant |-> variant, input |-> path,
                 path |-> path, round |-> 1]
    /\ ret = None

SpecNormalize == InitNormalize /\ [][CallNormalizePath \/ NormalizeAgain]_vars

\* C13: normalizePath is idempotent in both variants (normalizing a
\* normalized path returns it unchanged), and its output never contains two
\* consecutive slashes.
C13_NormalizeIdempotent ==
    Returned("normalizePath") =>
        /\ args.round = 2 => ret[1] = args.path
        /\ \A i \in 1..(Len(ret[1]) - 1) : ~(ret[1][i] = "/" /\ ret[1][i + 1] = "/")

\* "/a//" normalized twice by the NestJS variant: "/a" both times
C13_Witness ==
    /\ Returned("normalizePath")
    /\ args.round = 2
    /\ args.variant = "nest"
    /\ args.input = <<"/", "a", "/", "/">>
    /\ args.path = <<"/", "a">>
    /\ ret[1] = <<"/", "a">>

----------------------------------------------------------------------------
(* testers/endpoint.ts: generateDataFromSchema, generateObjectFromSchema.  *)
(* Generated arrays carry the sequence of their elements and generated     *)
(* objects the mapping of their keys.                                      *)

MaxSchemaDepth == 1

\* a schema object; items and properties are optional, properties maps
\* property names to schemas
SchemaNode(type, example, default, items, properties, ref) ==
    [t |-> "node", type |-> type, example |-> example, default |-> default,
     items |-> items, properties |-> properties, ref |-> ref]

\* {type: ty, example: e, default: d}
ScalarNode(ty, e, d) == SchemaNode(JsString(ty), e, d, None, None, Undefined)

ArrayNode(items) == SchemaNode(JsString("array"), Undefined, Undefined, items, None, Undefined)

ObjectNode(properties) ==
    SchemaNode(JsString("object"), Undefined, Undefined, None, properties, Undefined)

\* an array with items whose generated value is listed twice
WrapItemTwice(value) == JsArray(<<value, value>>)

\* [generateDataFromSchema(schema.items, paramValues)]
WrapItem(value) == JsArray(<<value>>)

RECURSIVE generateDataFromSchema(_, _)
RECURSIVE generateObjectFromSchema(_, _)

generateDataFromSchema(schema, paramValues) ==
    IF schema.t \in {"null", "undefined"} THEN JsNull
    ELSE IF TypeOf(schema.type) = "string"
         THEN CASE schema.type.v = "string" ->
                       Or(Or(schema.example, schema.default), JsString("test-string"))
                [] schema.type.v \in {"number", "integer"} ->
                       Or(Or(schema.example, schema.default), JsNumber("123"))
                [] schema.type.v = "boolean" ->
                       Or(Or(schema.example, schema.default), JsBool("true"))
                [] schema.type.v = "array" ->
                       IF schema.items # None
                       THEN WrapItem(generateDataFromSchema(schema.items[1], paramValues))
                       ELSE JsArray(<<>>)
                [] schema.type.v = "object" -> generateObjectFromSchema(schema, paramValues)
                [] OTHER -> JsNull
         ELSE IF Truthy(schema.ref) THEN JsObject(<<>>)
              ELSE JsObject(<<>>)

generateObjectFromSchema(schema, paramValues) ==
    IF schema.properties = None THEN JsObject(<<>>)
    ELSE JsObject([propName \in DOMAIN schema.properties[1] |->
                      IF Supplied(paramValues, propName) # Undefined
                      THEN paramValues[propName]
                      ELSE generateDataFromSchema(schema.properties[1][propName], paramValues)])

\* example and default values of scalar schemas
ExampleValues == { Undefined, JsString("e"), JsString(""), JsNumber("0"), JsBool("false") }

ScalarSchemas ==
    { ScalarNode(ty, e, d) : ty \in {"string", "number", "integer", "boolean"},
                             e \in ExampleValues, d \in ExampleValues }

\* no schema, an unknown type, a reference, neither type nor reference
OtherSchemas ==
    { JsNull,
      ScalarNode("date", Undefined, Undefined),
      SchemaNode(Undefined, Undefined, Undefined, None, None, JsString("#/definitions/X")),
      SchemaNode(Undefined, Undefined, Undefined, None, None, Undefined) }

\* the schemas items and properties are built from
NestedLeaves ==
    { ScalarNode("string", JsString("e"), JsString("d")),
      ScalarNode("string", JsString(""), Undefined),
      ScalarNode("string", Undefined, Undefined),
      ScalarNode("integer", Undefined, Undefined),
      ScalarNode("date", Undefined, Undefined) }

RECURSIVE NestedSchemas(_)
NestedSchemas(depth) ==
    IF depth = 0 THEN NestedLeaves
    ELSE LET sub == NestedSchemas(depth - 1)
         IN  sub \cup { ArrayNode(None), ObjectNode(None) }
                 \cup { ArrayNode(Some(sch)) : sch \in sub }
                 \cup { ObjectNode(Some(props)) :
                          props \in UNION { [names -> sub] : names \in SUBSET {"x", "y"} } }

\* config.paramValues: absent or empty, or values for some property names
ParamValueMaps ==
    { <<>>, [n \in {"x"} |-> JsString("o")], [n \in {"x"} |-> JsNull],
      [n \in {"x", "y"} |-> IF n = "x" THEN JsString("o") ELSE JsNumber("0")] }

\* a call generateDataFromSchema(schema, paramValues)
CallGenerateDataFromSchema ==
    /\ pc = "generateDataFromSchema"
    /\ ret' = Some(generateDataFromSchema(args.schema, args.paramValues))
    /\ pc' = "return"
    /\ UNCHANGED <<orchData, args>>

InitGenerate ==
    /\ NoRun
    /\ pc = "generateDataFromSchema"
    /\ args \in [fn : {"generateDataFromSchema"},
                 schema : ScalarSchemas \cup OtherSchemas \cup NestedSchemas(MaxSchemaDepth),
                 paramValues : ParamValueMaps]
    /\ ret = None

SpecGenerate == InitGenerate /\ [][CallGenerateDataFromSchema]_vars

\* a call that generated a value for the schema {type: ty}
Generated(ty) ==
    /\ Returned("generateDataFromSchema")
    /\ args.schema.t = "node"
    /\ args.schema.type = JsString(ty)

\* C16: in a generated object, a property with a value in the override map
\* gets exactly that value whatever its schema says; without an override it
\* gets its example; with no override, example or default a string property
\* gets "test-string".
C16_OverridePrecedence ==
    (Generated("object") /\ args.schema.properties # None) =>
        \A name \in DOMAIN args.schema.properties[1] :
            LET prop == args.schema.properties[1][name]
                override == Supplied(args.paramValues, name)
            IN  /\ override # Undefined => ret[1].v[name] = override
                /\ (override = Undefined /\ prop.example # Undefined)
                      => ret[1].v[name] = prop.example
                /\ (/\ override = Undefined
                    /\ prop.type = JsString("string")
                    /\ prop.example = Undefined
                    /\ prop.default = Undefined)
                      => ret[1].v[name] = JsString("test-string")

\* the same with the example clause kept to examples that are truthy
OverridePrecedenceTruthyExample ==
    (Generated("object") /\ args.schema.properties # None) =>
        \A name \in DOMAIN args.schema.properties[1] :
            LET prop == args.schema.properties[1][name]
                override == Supplied(args.paramValues, name)
            IN  /\ override # Undefined => ret[1].v[name] = override
                /\ (override = Undefined /\ Truthy(prop.example))
                      => ret[1].v[name] = prop.example
                /\ (/\ override = Undefined
                    /\ prop.type = JsString("string")
                    /\ prop.example = Undefined
                    /\ prop.default = Undefined)
                      => ret[1].v[name] = JsString("test-string")

\* C17: an array schema with items yields a list of exactly one element, the
\* value generated for items, and without items the empty list; an object
\* schema yields a mapping with exactly the keys of properties, each holding
\* the value generated for its schema (its override when it has one), and
\* the empty mapping when properties is absent.
C17_GeneratorRecursion ==
    /\ Generated("array") =>
          IF args.schema.items = None
          THEN ret[1] = JsArray(<<>>)
          ELSE /\ ret[1].t = "array"
               /\ Len(ret[1].v) = 1
               /\ ret[1].v[1] = generateDataFromSchema(args.schema.items[1], args.paramValues)
    /\ Generated("object") =>
          IF args.schema.properties = None
          THEN ret[1] = JsObject(<<>>)
          ELSE /\ ret[1].t = "object"
               /\ DOMAIN ret[1].v = DOMAIN args.schema.properties[1]
               /\ \A name \in DOMAIN ret[1].v :
                     Supplied(args.paramValues, name) = Undefined =>
                         ret[1].v[name] =
                             generateDataFromSchema(args.schema.properties[1][name],
                                                    args.paramValues)

\* {type: "array", items: {type: "integer"}} generated [123]
C17_Witness ==
    /\ Generated("array")
    /\ args.schema.items = Some(ScalarNode("integer", Undefined, Undefined))
    /\ ret[1] = JsArray(<<JsNumber("123")>>)

----------------------------------------------------------------------------
(* analyzers/express.ts, analyzers/fastify.ts, analyzers/nest.ts,          *)
(* analyzers/index.ts.  A host application is a record of the properties   *)
(* the adapters read; a call ends in an Outcome: the list returned, or an  *)
(* exception, and the lines logged at info, warn and error level.          *)

LogLine(level, message, detail) == [level |-> level, message |-> message, detail |-> detail]

Outcome(threw, eps, log) == [threw |-> threw, endpoints |-> eps, log |-> log]

\* logger.info(`Analysis complete. Found ${endpoints.length} endpoints.`)
Complete(eps) == LogLine("info", "Analysis complete. Found endpoints:", ToString(Len(eps)))

\* String.prototype.toUpperCase on the method names of the hosts
ToUpperCase(str) ==
    CASE str = "get" -> "GET"
      [] str = "post" -> "POST"
      [] str = "put" -> "PUT"
      [] str = "delete" -> "DELETE"
      [] OTHER -> str

RECURSIVE Flatten(_)
Flatten(seqs) == IF seqs = <<>> THEN <<>> ELSE Head(seqs) \o Flatten(Tail(seqs))

\* params.map(p => ({name: p, type: 'string', required: true, in: 'path'}))
PathParameters(names) ==
    [i \in DOMAIN names |-> Parameter(names[i], "string", TRUE, "path")]

\* the responses given to an endpoint whose route declares none
DefaultResponses == <<Response(200, Undefined), Response(400, Undefined)>>

\* Object.keys(route.methods).filter(m => route.methods[m]).map(toUpperCase)
EnabledMethods(methods) ==
    LET on == SelectSeq(methods, LAMBDA m : m.enabled)
    IN  [i \in DOMAIN on |-> ToUpperCase(on[i].name)]

\* the endpoints of one route: one per enabled method
RouteEndpoints(path, methods) ==
    LET ms == EnabledMethods(methods)
    IN  [i \in DOMAIN ms |->
            Endpoint(path, ms[i], PathParameters(parseRouteParams(path)), DefaultResponses)]

MatchesAt(str, pat, i) ==
    i + Len(pat) - 1 <= Len(str) /\ SubSeq(str, i, i + Len(pat) - 1) = pat

\* str.replace(pat, rep) with a string pattern: the first occurrence
RECURSIVE ReplaceFirst(_, _, _)
ReplaceFirst(str, pat, rep) ==
    IF str = <<>> THEN <<>>
    ELSE IF MatchesAt(str, pat, 1)
         THEN rep \o SubSeq(str, Len(pat) + 1, Len(str))
         ELSE <<Head(str)>> \o ReplaceFirst(Tail(str), pat, rep)

\* str.replace(/pat/g, rep) for a pattern that is a literal text
RECURSIVE ReplaceAll(_, _, _)
ReplaceAll(str, pat, rep) ==
    IF str = <<>> THEN <<>>
    ELSE IF MatchesAt(str, pat, 1)
         THEN rep \o ReplaceAll(SubSeq(str, Len(pat) + 1, Len(str)), pat, rep)
         ELSE <<Head(str)>> \o ReplaceAll(Tail(str), pat, rep)

\* str.replace(/^pat/, '')
StripPrefix(str, pat) ==
    IF MatchesAt(str, pat, 1) THEN SubSeq(str, Len(pat) + 1, Len(str)) ELSE str

\* str.replace(/pat$/, '')
StripSuffix(str, pat) ==
    IF Len(str) >= Len(pat) /\ MatchesAt(str, pat, Len(str) - Len(pat) + 1)
    THEN SubSeq(str, 1, Len(str) - Len(pat))
    ELSE str

\* the text \/?(?=\/|$) that ends the pattern of a mounted router
MountSuffix == <<"\\", "/", "?", "(", "?", "=", "\\", "/", "|", "$", ")">>

\* layer.regexp?.toString() and the four replacements, or ''
RouterPath(regexp) ==
    IF regexp = None THEN <<>>
    ELSE ReplaceAll(
             StripSuffix(
                 StripPrefix(ReplaceFirst(regexp[1], MountSuffix, <<>>), <<"^", "\\">>),
                 MountSuffix),
             <<"\\", "/">>, <<"/">>)

processNestedRouter(stack, basePath) ==
    Flatten([i \in DOMAIN stack |->
                IF stack[i].route # None
                THEN RouteEndpoints(normalizePathExpress(basePath \o stack[i].route[1].path),
                                    stack[i].route[1].methods)
                ELSE <<>>])

\* the body of the loop over the router stack
LayerEndpoints(layer) ==
    IF layer.route # None
    THEN RouteEndpoints(layer.route[1].path, layer.route[1].methods)
    ELSE IF layer.name = "router" /\ layer.handle # None
         THEN processNestedRouter(layer.handle[1].stack, RouterPath(layer.regexp))
         ELSE <<>>

\* for-of over a value that is not iterable throws a TypeError, and nothing
\* catches it here
analyzeExpressApp(app) ==
    LET banner == LogLine("info", "Analyzing Express.js application...", "")
        stack == IF app._router = None THEN Undefined ELSE app._router[1].stack
        layers == IF Truthy(stack) THEN stack ELSE JsArray(<<>>)
    IN  IF ~IsArray(layers)
        THEN Outcome(TRUE, <<>>, <<banner>>)
        ELSE LET eps == Flatten([i \in DOMAIN layers.v |-> LayerEndpoints(layers.v[i])])
             IN  Outcome(FALSE, eps, <<banner, Complete(eps)>>)

\* Object.keys(properties).forEach(propName => parameters.push({...}))
QueryParameters(querystring) ==
    [i \in DOMAIN querystring.properties |->
        Parameter(querystring.properties[i].name,
                  IF querystring.properties[i].type # ""
                  THEN querystring.properties[i].type ELSE "string",
                  Includes(querystring.required, querystring.properties[i].name),
                  "query")]

\* the body of the loop over app.routes; an empty url, path or method
\* stands for an absent one
FastifyEndpoint(route) ==
    LET path == IF route.url # <<>> THEN route.url ELSE route.path
        method == ToUpperCase(IF route.method # "" THEN route.method ELSE "GET")
        query == IF route.schema # None /\ route.schema[1].querystring # None
                 THEN QueryParameters(route.schema[1].querystring[1])
                 ELSE <<>>
        body == IF route.schema # None /\ Truthy(route.schema[1].body)
                THEN <<ParameterWith(<<"b", "o", "d", "y">>, "object", TRUE, "body", Undefined,
                                     route.schema[1].body)>>
                ELSE <<>>
        schemaOf(code) == IF route.schema = None THEN JsNull
                          ELSE Or(route.schema[1].response[code], JsNull)
    IN  Endpoint(path, method,
                 PathParameters(parseRouteParams(path)) \o query \o body,
                 <<Response(200, schemaOf("200")), Response(400, schemaOf("400"))>>)

\* the catch block turns the TypeError of for-of over a value that is not
\* iterable into an error line
analyzeFastifyApp(app) ==
    LET banner == LogLine("info", "Analyzing Fastify application...", "")
        routes == IF Truthy(app.routes) THEN app.routes ELSE JsArray(<<>>)
    IN  IF ~IsArray(routes)
        THEN Outcome(FALSE, <<>>,
                     <<banner, LogLine("error", "Error analyzing Fastify app:", "TypeError"),
                       Complete(<<>>)>>)
        ELSE LET eps == [i \in DOMAIN routes.v |-> FastifyEndpoint(routes.v[i])]
             IN  Outcome(FALSE, eps, <<banner, Complete(eps)>>)

\* parseInt(statusCode, 10) on the keys of apiResponses
ParseInt(str) ==
    CASE str = "200" -> 200
      [] str = "201" -> 201
      [] str = "404" -> 404

\* the body of the loop over the route handlers of a controller
HandlerEndpoints(controller, handler) ==
    IF handler.path = <<>> THEN <<>>
    ELSE LET fullPath == normalizePathNest(<<"/">> \o controller.path \o <<"/">> \o handler.path)
             methods == IF handler.methods = None THEN <<"GET">> ELSE handler.methods[1]
             declared == [i \in DOMAIN handler.apiResponses |->
                             Response(ParseInt(handler.apiResponses[i].statusCode),
                                      Or(handler.apiResponses[i].type, JsNull))]
             responses == IF Len(declared) = 0 THEN DefaultResponses ELSE declared
         IN  [i \in DOMAIN methods |->
                 Endpoint(fullPath, ToUpperCase(methods[i]),
                          PathParameters(parseRouteParams(fullPath)) \o handler.apiParams,
                          responses)]

\* the body of the loop over container.getControllers()
ControllerEndpoints(controller) ==
    IF ~controller.instance THEN <<>>
    ELSE Flatten([i \in DOMAIN controller.handlers |->
                     HandlerEndpoints(controller, controller.handlers[i])])

\* app.container || app.applicationConfig?.container
ContainerOf(app) ==
    Or(app.container,
       IF app.applicationConfig = None THEN Undefined ELSE app.applicationConfig[1].container)

\* the catch block turns the TypeError of calling a getControllers that does
\* not exist into an error line
analyzeNestApp(app) ==
    LET banner == LogLine("info", "Analyzing NestJS application...", "")
        container == ContainerOf(app)
    IN  IF ~Truthy(container)
        THEN Outcome(FALSE, <<>>,
                     <<banner, LogLine("warn", "Could not access NestJS container", "")>>)
        ELSE IF container.getControllers = None
             THEN Outcome(FALSE, <<>>,
                          <<banner, LogLine("error", "Error analyzing NestJS app:", "TypeError"),
                            Complete(<<>>)>>)
             ELSE LET eps == Flatten([i \in DOMAIN container.getControllers[1] |->
                                         ControllerEndpoints(container.getControllers[1][i])])
                  IN  Outcome(FALSE, eps, <<banner, Complete(eps)>>)

\* the three tests with the Fastify marker tried first
detectFrameworkTypeFastifyFirst(app) ==
    IF Truthy(app.routes) /\ app.register
    THEN [type |-> "fastify", log |-> <<>>]
    ELSE IF app._router # None /\ Truthy(app._router[1].stack)
         THEN [type |-> "express", log |-> <<>>]
         ELSE IF Truthy(ContainerOf(app))
              THEN [type |-> "nestjs", log |-> <<>>]
              ELSE [type |-> "express",
                    log |-> <<LogLine("warn",
                        "Could not detect framework type, defaulting to Express", "")>>]

\* the framework detected and the line logged on the way
detectFrameworkType(app) ==
    IF app._router # None /\ Truthy(app._router[1].stack)
    THEN [type |-> "express", log |-> <<>>]
    ELSE IF Truthy(app.routes) /\ app.register
         THEN [type |-> "fastify", log |-> <<>>]
         ELSE IF Truthy(ContainerOf(app))
              THEN [type |-> "nestjs", log |-> <<>>]
              ELSE [type |-> "express",
                    log |-> <<LogLine("warn",
                        "Could not detect framework type, defaulting to Express", "")>>]

analyzeApp(app, frameworkType) ==
    LET detected == IF frameworkType = "auto"
                    THEN detectFrameworkType(app)
                    ELSE [type |-> frameworkType, log |-> <<>>]
        probing == IF frameworkType = "auto"
                   THEN detected.log \o <<LogLine("info", "Detected framework:", detected.type)>>
                   ELSE <<>>
        run == CASE detected.type = "express" -> analyzeExpressApp(app)
                 [] detected.type = "fastify" -> analyzeFastifyApp(app)
                 [] detected.type = "nestjs" -> analyzeNestApp(app)
                 [] OTHER -> Outcome(FALSE, <<>>,
                                 <<LogLine("error", "Unsupported framework type:", detected.type)>>)
    IN  [run EXCEPT !.log = probing \o @]

\* The host applications the adapters are run on.  A router stack: a route
\* "/:a" (GET enabled, POST disabled), a middleware, and a router mounted at
\* "/a", whose pattern reads /^\/a\/?(?=\/|$)/i, with the route "/b/" (PUT).
ExpressStack ==
    << [route |-> Some([path |-> <<"/", ":", "a">>,
                        methods |-> <<[name |-> "get", enabled |-> TRUE],
                                      [name |-> "post", enabled |-> FALSE]>>]),
        name |-> "bound dispatch", handle |-> None, regexp |-> None],
       [route |-> None, name |-> "jsonParser", handle |-> None, regexp |-> None],
       [route |-> None, name |-> "router",
        handle |-> Some([stack |->
            << [route |-> Some([path |-> <<"/", "b", "/">>,
                                methods |-> <<[name |-> "put", enabled |-> TRUE]>>]),
                name |-> "bound dispatch", handle |-> None, regexp |-> None] >>]),
        regexp |-> Some(<<"/", "^", "\\", "/", "a">> \o MountSuffix \o <<"/", "i">>)] >>

\* POST "/{a}" with a query string and a body schema, and a route that has
\* a path only
FastifyRoutes ==
    << [url |-> <<"/", "{", "a", "}">>, path |-> <<>>, method |-> "post",
        schema |-> Some([querystring |-> Some([properties |-> <<[name |-> <<"a">>, type |-> ""]>>,
                                               required |-> << <<"a">> >>]),
                         body |-> ObjectNode(None),
                         response |-> [code \in {"200", "400"} |->
                                          IF code = "200" THEN ObjectSchema ELSE Undefined]])],
       [url |-> <<>>, path |-> <<"/", "b">>, method |-> "", schema |-> None] >>

\* a controller "a" with the handlers ":b/" (GET and POST) and one without a
\* path, and a controller that has no instance
NestContainer ==
    [t |-> "object",
     getControllers |-> Some(
        << [instance |-> TRUE, path |-> <<"a">>,
            handlers |->
               << [path |-> <<":", "b", "/">>, methods |-> Some(<<"get", "post">>),
                   apiParams |-> <<Parameter(<<"b">>, "number", TRUE, "path")>>,
                   apiResponses |-> <<[statusCode |-> "201", type |-> Undefined]>>],
                  [path |-> <<>>, methods |-> None, apiParams |-> <<>>, apiResponses |-> <<>>] >>],
           [instance |-> FALSE, path |-> <<"b">>,
            handlers |-> << [path |-> <<"b">>, methods |-> None, apiParams |-> <<>>,
                             apiResponses |-> <<>>] >>] >>)]

\* every combination of: no router, a router without a stack, with a stack
\* that cannot be iterated, with a stack; no routes, routes that cannot be
\* iterated, routes; register a function or not; no container, an object
\* without getControllers, a container, directly or in applicationConfig
Hosts ==
    [ _router : { None, Some([stack |-> Undefined]), Some([stack |-> JsObject("{}")]),
                  Some([stack |-> JsArray(ExpressStack)]) },
      routes : { Undefined, JsObject("{}"), JsArray(FastifyRoutes) },
      register : BOOLEAN,
      container : { Undefined, [t |-> "object", getControllers |-> None], NestContainer },
      applicationConfig : { None, Some([container |-> NestContainer]) } ]

CallAnalyzeApp ==
    /\ pc = "analyzeApp"
    /\ ret' = Some(analyzeApp(args.app, args.frameworkType))
    /\ pc' = "return"
    /\ UNCHANGED <<orchData, args>>

CallAnalyzeExpressApp ==
    /\ pc = "analyzeExpressApp"
    /\ ret' = Some(analyzeExpressApp(args.app))
    /\ pc' = "return"
    /\ UNCHANGED <<orchData, args>>

CallAnalyzeFastifyApp ==
    /\ pc = "analyzeFastifyApp"
    /\ ret' = Some(analyzeFastifyApp(args.app))
    /\ pc' = "return"
    /\ UNCHANGED <<orchData, args>>

CallAnalyzeNestApp ==
    /\ pc = "analyzeNestApp"
    /\ ret' = Some(analyzeNestApp(args.app))
    /\ pc' = "return"
    /\ UNCHANGED <<orchData, args>>

InitAnalyze ==
    /\ NoRun
    /\ \/ pc = "analyzeApp" /\ args \in [fn : {"analyzeApp"}, app : Hosts,
                                         frameworkType : {"express", "fastify", "nestjs", "auto", "koa"}]
       \/ /\ pc \in {"analyzeExpressApp", "analyzeFastifyApp", "analyzeNestApp"}
          /\ args \in [fn : {pc}, app : Hosts, frameworkType : {"none"}]
    /\ ret = None

SpecAnalyze ==
    InitAnalyze /\ [][CallAnalyzeApp \/ CallAnalyzeExpressApp \/ CallAnalyzeFastifyApp
                         \/ CallAnalyzeNestApp]_vars

\* the introspection point an adapter reads is absent or cannot be iterated
LacksIntrospection(fn, app) ==
    CASE fn = "analyzeExpressApp" -> app._router = None \/ ~IsArray(app._router[1].stack)
      [] fn = "analyzeFastifyApp" -> ~IsArray(app.routes)
      [] fn = "analyzeNestApp" ->
            ~Truthy(ContainerOf(app)) \/ ContainerOf(app).getControllers = None

\* C14: every adapter is fail-soft: on a host that lacks the router stack,
\* the routes or the container, or has a value there that cannot be
\* iterated, it returns the empty endpoint list and does not raise.
C14_AdaptersFailSoft ==
    \A fn \in {"analyzeExpressApp", "analyzeFastifyApp", "analyzeNestApp"} :
        (Returned(fn) /\ LacksIntrospection(fn, args.app)) =>
            ~ret[1].threw /\ ret[1].endpoints = <<>>

\* the same without the hosts whose router stack is a value that cannot be
\* iterated
FailSoftUnlessStackNotIterable ==
    \A fn \in {"analyzeExpressApp", "analyzeFastifyApp", "analyzeNestApp"} :
        (/\ Returned(fn)
         /\ LacksIntrospection(fn, args.app)
         /\ ~(fn = "analyzeExpressApp" /\ args.app._router # None
                /\ Truthy(args.app._router[1].stack)))
            => ~ret[1].threw /\ ret[1].endpoints = <<>>

\* the framework the selector stands for on a host: the selector itself, or
\* for auto the first marker found in the order Express, Fastify, NestJS,
\* and Express when there is none
SelectedFramework(app, frameworkType) ==
    CASE frameworkType \in {"express", "fastify", "nestjs"} -> frameworkType
      [] frameworkType = "auto" ->
            IF app._router # None /\ Truthy(app._router[1].stack) THEN "express"
            ELSE IF Truthy(app.routes) /\ app.register THEN "fastify"
            ELSE IF Truthy(app.container)
                    \/ (app.applicationConfig # None
                          /\ Truthy(app.applicationConfig[1].container)) THEN "nestjs"
            ELSE "express"
      [] OTHER -> "none"

\* the adapters whose opening line is in a log
AdaptersRun(log) ==
    { f \in {"express", "fastify", "nestjs"} :
        \E i \in DOMAIN log :
            log[i].message = (CASE f = "express" -> "Analyzing Express.js application..."
                                [] f = "fastify" -> "Analyzing Fastify application..."
                                [] f = "nestjs" -> "Analyzing NestJS application...") }

\* C15: analyzeApp with an explicit selector runs exactly that framework's
\* adapter and does not probe the host; with auto it probes the markers in
\* the order Express, Fastify, NestJS, runs the adapter of the first that
\* matches and the Express adapter when none does; any other selector
\* yields the empty list.
C15_FrameworkDispatch ==
    Returned("analyzeApp") =>
        LET selected == SelectedFramework(args.app, args.frameworkType)
            expected == CASE selected = "express" -> analyzeExpressApp(args.app)
                          [] selected = "fastify" -> analyzeFastifyApp(args.app)
                          [] selected = "nestjs" -> analyzeNestApp(args.app)
                          [] OTHER -> Outcome(FALSE, <<>>, <<>>)
        IN  /\ AdaptersRun(ret[1].log) = {selected} \ {"none"}
            /\ ret[1].threw = expected.threw
            /\ ret[1].endpoints = expected.endpoints
            /\ args.frameworkType # "auto" =>
                  \A i \in DOMAIN ret[1].log : ret[1].log[i].message # "Detected framework:"

\* auto on a host with the Fastify and the NestJS marker and no Express
\* marker: the Fastify adapter ran and returned the two routes
C15_Witness ==
    /\ Returned("analyzeApp")
    /\ args.frameworkType = "auto"
    /\ args.app._router = None
    /\ args.app.routes = JsArray(FastifyRoutes)
    /\ args.app.register
    /\ args.app.container = NestContainer
    /\ AdaptersRun(ret[1].log) = {"fastify"}
    /\ Len(ret[1].endpoints) = 2

----------------------------------------------------------------------------
(* testers/index.ts and testers/endpoint.ts: frame, requests, schema step *)

\* C18: no step of testApiEndpoints or testEndpoint modifies the endpoint
\* list, an endpoint in it or the configuration; the result list changes
\* only by the orchestrator appending the result just returned, or by the
\* schema step on the entry of the current endpoint.
C18_InputsAreReadOnly ==
    [][/\ endpoints' = endpoints
       /\ config' = config
       /\ \/ results' = results
          \/ pc = "returned" /\ results' = Append(results, result[1])
          \/ /\ pc = "schema"
             /\ Len(results') = Len(results)
             /\ \A j \in 1..Len(results) : j # idx => results'[j] = results[j]]_vars

\* a finished run over two endpoints whose first result the schema step
\* rewrote
C18_Witness ==
    /\ pc = "done"
    /\ Len(endpoints) = 2
    /\ Len(results) = 2
    /\ results[1].error # None
    /\ results[1].error[1].kind = "schema"
    /\ results[2].success

\* the number of requests issued for the i-th endpoint
Requests(i) == Cardinality({ k \in DOMAIN sent : sent[k] = i })

\* C19: every endpoint whose result is recorded was requested exactly once
\* before, never zero times and never twice.
C19_ExactlyOneRequestPerEndpoint ==
    /\ \A i \in DOMAIN endpoints : Requests(i) <= 1
    /\ \A i \in DOMAIN results : Requests(i) = 1

\* C19, with the request that cannot be built taken into account: at most
\* one request is issued for an endpoint, never a second one; a recorded result was preceded by exactly one request unless
\* building the request threw, and then no request was issued and the
\* result is a failure with the exception's message and no statusCode.
C19_AtMostOneRequestPerEndpoint ==
    /\ \A i \in DOMAIN endpoints : Requests(i) <= 1
    /\ \A i \in DOMAIN results :
        IF SynthesisThrows(endpoints[i], config)
        THEN /\ Requests(i) = 0
             /\ ~results[i].success
             /\ results[i].statusCode = None
             /\ results[i].error = Some(TransportError(URIError))
        ELSE Requests(i) = 1

\* two results recorded: the first without a request, the second after its
\* one request
C19_Witness ==
    /\ Len(results) = 2
    /\ Requests(1) = 0
    /\ Requests(2) = 1
    /\ observed[1].kind = "unsent"
    /\ observed[2].kind = "response"

\* C20: the schema step only downgrades: it leaves the result as it is
\* unless validateSchema is enabled and the result is successful, so a
\* failed result keeps its error and statusCode and never becomes
\* successful; when the check fails, success becomes false and error holds
\* the violations the validator reported, nothing else changes.
C20_SchemaStepOnlyDowngrades ==
    [][pc = "schema" =>
        LET before == results[idx]
            after == results'[idx]
        IN  /\ (~config.validateSchema \/ ~before.success) => after = before
            /\ after.success => before.success
            /\ after # before =>
                 LET schemaResult == validateResponseSchema(endpoints[idx],
                                         before.statusCode[1], before.responseBody[1])
                 IN  /\ ~schemaResult.valid
                     /\ after = [before EXCEPT
                                    !.success = FALSE,
                                    !.error = Some(SchemaError(schemaResult.errors[1]))]]_vars

\* with validateSchema enabled, the first result was downgraded by the
\* schema step and the second, failed by status with a body that violates
\* the schema declared for that status, kept its status error
C20_Witness ==
    /\ config.validateSchema
    /\ Finalized(2)
    /\ results[1].error # None
    /\ results[1].error[1].kind = "schema"
    /\ observed[2].kind = "response"
    /\ BodyViolatesSchema(endpoints[2], observed[2].status, observed[2].data)
    /\ results[2].error # None
    /\ results[2].error[1].kind = "status"

----------------------------------------------------------------------------
(* testers/endpoint.ts: generateDataFromSchema on scalar and unknown nodes *)

\* the literal the generator falls back to for a scalar type
ScalarLiteral(ty) ==
    CASE ty = "string" -> JsString("test-string")
      [] ty \in {"number", "integer"} -> JsNumber("123")
      [] ty = "boolean" -> JsBool("true")

\* a call that generated a value for a schema of a scalar type
GeneratedScalar ==
    /\ Returned("generateDataFromSchema")
    /\ args.schema.t = "node"
    /\ args.schema.type \in { JsString(ty) : ty \in {"string", "number", "integer", "boolean"} }

\* C21: for a schema of type string, number, integer or boolean the
\* generator returns the example when one is present, else the default when
\* one is present, else "test-string", 123 or true; a present example or
\* default is returned as is even when it is false, 0 or the empty string.
C21_ScalarPrecedence ==
    GeneratedScalar =>
        ret[1] = (IF args.schema.example # Undefined THEN args.schema.example
                  ELSE IF args.schema.default # Undefined THEN args.schema.default
                  ELSE ScalarLiteral(args.schema.type.v))

\* the same precedence with "present" read as "truthy"
ScalarPrecedenceTruthy ==
    GeneratedScalar =>
        ret[1] = (IF Truthy(args.schema.example) THEN args.schema.example
                  ELSE IF Truthy(args.schema.default) THEN args.schema.default
                  ELSE ScalarLiteral(args.schema.type.v))

\* C22: for every schema whose type is missing or is none of string,
\* number, integer, boolean, array, object, a $ref node included, the
\* generator returns the empty mapping; it returns a value for every input.
C22_UnknownTypeGivesEmptyMapping ==
    (/\ Returned("generateDataFromSchema")
     /\ args.schema.t = "node"
     /\ args.schema.type \notin
            { JsString(ty) : ty \in {"string", "number", "integer", "boolean",
                                     "array", "object"} })
        => ret[1] = JsObject(<<>>)

\* the same for the schemas that have no type at all
MissingTypeGivesEmptyMapping ==
    (/\ Returned("generateDataFromSchema")
     /\ args.schema.t = "node"
     /\ args.schema.type = Undefined)
        => ret[1] = JsObject(<<>>)

----------------------------------------------------------------------------
(* testers/endpoint.ts: buildUrl, buildRequestBody and the request the     *)
(* try block of testEndpoint hands to axios.  URLs, paths and parameter    *)
(* names are sequences of characters.                                      *)

MaxBuildParams == 2

\* StringOf(value) for the values a parameter can get
StringOf(value) ==
    CASE value.t = "string" -> value.v
      [] value.t = "number" /\ value.v = "123" -> <<"1", "2", "3">>
      [] value.t = "boolean" /\ value.v = "true" -> <<"t", "r", "u", "e">>
      [] value.t = "array" /\ value.v = "[]" -> <<>>
      [] value.t = "object" /\ value.v = "{}" ->
             <<"[", "o", "b", "j", "e", "c", "t", " ", "O", "b", "j", "e", "c", "t", "]">>

\* encodeURIComponent on one character: letters, digits and - _ . ! ~ * ' ( )
\* are kept, every other character is percent-encoded
EscapeChar(c) ==
    CASE c = " " -> <<"%", "2", "0">>
      [] c = "/" -> <<"%", "2", "F">>
      [] c = ":" -> <<"%", "3", "A">>
      [] c = "[" -> <<"%", "5", "B">>
      [] c = "]" -> <<"%", "5", "D">>
      [] OTHER -> <<c>>

encodeURIComponent(str) == Flatten([i \in DOMAIN str |-> EscapeChar(str[i])])

\* endpoint.parameters.filter(p => p.in === location)
ParametersIn(endpoint, location) ==
    SelectSeq(endpoint.parameters, LAMBDA p : p.in = location)

\* the loop over the path parameters: path.replace(`:${param.name}`, ...)
\* with a string pattern replaces the first occurrence; the replacement has
\* no "$" (encodeURIComponent escapes it), so it is inserted as it is
RECURSIVE SubstitutePathParams(_, _, _)
SubstitutePathParams(path, pathParams, cfg) ==
    IF pathParams = <<>> THEN path
    ELSE SubstitutePathParams(
             ReplaceFirst(path, <<":">> \o Head(pathParams).name,
                          encodeURIComponent(StringOf(getParameterValue(Head(pathParams), cfg)))),
             Tail(pathParams), cfg)

\* queryParams.map(param => `${param.name}=${...}`).join('&')
RECURSIVE QueryString(_, _)
QueryString(queryParams, cfg) ==
    IF queryParams = <<>> THEN <<>>
    ELSE Head(queryParams).name \o <<"=">>
             \o encodeURIComponent(StringOf(getParameterValue(Head(queryParams), cfg)))
             \o (IF Tail(queryParams) = <<>> THEN <<>>
                 ELSE <<"&">> \o QueryString(Tail(queryParams), cfg))

\* path += path.includes('?') ? `&${queryString}` : `?${queryString}`
AppendQuery(path, queryParams, cfg) ==
    IF queryParams = <<>> THEN path
    ELSE path \o (IF Includes(path, "?") THEN <<"&">> ELSE <<"?">>)
              \o QueryString(queryParams, cfg)

\* the base URL loses its trailing slash when the path starts with one
JoinBaseUrl(baseUrl, path) ==
    IF /\ baseUrl # <<>> /\ baseUrl[Len(baseUrl)] = "/"
       /\ path # <<>> /\ path[1] = "/"
    THEN SubSeq(baseUrl, 1, Len(baseUrl) - 1) \o path
    ELSE baseUrl \o path

\* the path part of the URL before it is joined to the base
BuiltPath(endpoint, cfg) ==
    AppendQuery(SubstitutePathParams(endpoint.path, ParametersIn(endpoint, "path"), cfg),
                ParametersIn(endpoint, "query"), cfg)

buildUrl(endpoint, cfg) == JoinBaseUrl(cfg.baseUrl, BuiltPath(endpoint, cfg))

\* the last body parameter of that name: body[param.name] = ... in a loop
RECURSIVE LastNamed(_, _)
LastNamed(params, name) ==
    IF params[Len(params)].name = name THEN params[Len(params)]
    ELSE LastNamed(SubSeq(params, 1, Len(params) - 1), name)

\* null without body parameters; the value generated from the schema of the
\* first body parameter if it has one; else the object of all of them
buildRequestBody(endpoint, cfg) ==
    LET bodyParams == ParametersIn(endpoint, "body")
    IN  IF bodyParams = <<>> THEN JsNull
        ELSE IF Truthy(bodyParams[1].schema)
             THEN generateDataFromSchema(bodyParams[1].schema, cfg.paramValues)
             ELSE JsObject([name \in { bodyParams[i].name : i \in DOMAIN bodyParams } |->
                               getParameterValue(LastNamed(bodyParams, name), cfg)])

\* endpoint.method.toLowerCase()
ToLowerCase(str) ==
    CASE str = "GET" -> "get"
      [] str = "DELETE" -> "delete"
      [] str = "HEAD" -> "head"
      [] str = "OPTIONS" -> "options"
      [] str = "POST" -> "post"
      [] str = "PUT" -> "put"
      [] str = "Patch" -> "patch"
      [] OTHER -> str

\* variant of RequestData: the body is attached whatever the method
RequestDataAnyMethod(endpoint, cfg) ==
    IF Truthy(buildRequestBody(endpoint, cfg))
    THEN Some(buildRequestBody(endpoint, cfg)) ELSE None

\* axiosConfig.data: set if (data && ['post','put','patch'].includes(...))
RequestData(endpoint, cfg) ==
    IF /\ Truthy(buildRequestBody(endpoint, cfg))
       /\ ToLowerCase(endpoint.method) \in {"post", "put", "patch"}
    THEN Some(buildRequestBody(endpoint, cfg)) ELSE None

\* the axiosConfig of testEndpoint
AxiosConfig(endpoint, cfg) ==
    [method |-> ToLowerCase(endpoint.method),
     url |-> buildUrl(endpoint, cfg),
     data |-> RequestData(endpoint, cfg)]

\* what a call in the try block comes to: a URIError, or a value
Completion(endpoint, cfg, value) ==
    IF SynthesisThrows(endpoint, cfg) THEN [threw |-> TRUE, value |-> URIError]
    ELSE [threw |-> FALSE, value |-> value]

\* {type: "object", properties: {a: {type: "string"}}}
BodySchema ==
    ObjectNode(Some([n \in {<<"a">>} |-> ScalarNode("string", Undefined, Undefined)]))

\* the parameters of the endpoints requests are built for
BuildParameters ==
    { Parameter(<<"a">>, "string", TRUE, "path"),
      Parameter(<<"a", "b">>, "string", TRUE, "path"),
      Parameter(<<"a">>, "number", FALSE, "query"),
      Parameter(<<"b">>, "object", TRUE, "body"),
      ParameterWith(<<"a">>, "object", TRUE, "body", Undefined, BodySchema),
      ParameterWith(<<"b">>, "string", TRUE, "body", Undefined,
                    ScalarNode("date", Undefined, Undefined)) }

BuildPaths ==
    { <<"/", ":", "a">>,
      <<"/", ":", "a", "/", ":", "a", "b">>,
      <<"/", ":", "a", "b", "/", ":", "a">>,
      <<"/", ":", "a", "/", ":", "a">>,
      <<"b">>,
      <<"/", "b", "?">> }

BuildEndpoints ==
    { Endpoint(path, method, parameters, <<>>) :
        path \in BuildPaths,
        method \in {"GET", "DELETE", "HEAD", "OPTIONS", "POST", "PUT", "Patch"},
        parameters \in UNION { [1..n -> BuildParameters] : n \in 0..MaxBuildParams } }

\* baseUrl with and without a trailing slash; paramValues absent, a value
\* with characters that are escaped, a value that cannot be encoded
BuildConfigs ==
    [baseUrl : { <<"h">>, <<"h", "/">> },
     paramValues : { <<>>,
                     [n \in {<<"a">>} |-> JsString(<<"/", " ">>)],
                     [n \in {<<"a">>} |-> LoneSurrogate] }]

CallBuildUrl ==
    /\ pc = "buildUrl"
    /\ ret' = Some(Completion(args.endpoint, args.config,
                              buildUrl(args.endpoint, args.config)))
    /\ pc' = "return"
    /\ UNCHANGED <<orchData, args>>

CallBuildRequestBody ==
    /\ pc = "buildRequestBody"
    /\ ret' = Some(buildRequestBody(args.endpoint, args.config))
    /\ pc' = "return"
    /\ UNCHANGED <<orchData, args>>

BuildAxiosConfig ==
    /\ pc = "axiosConfig"
    /\ ret' = Some(Completion(args.endpoint, args.config,
                              AxiosConfig(args.endpoint, args.config)))
    /\ pc' = "return"
    /\ UNCHANGED <<orchData, args>>

InitBuild ==
    /\ NoRun
    /\ pc \in {"buildUrl", "buildRequestBody", "axiosConfig"}
    /\ args \in [fn : {pc}, endpoint : BuildEndpoints, config : BuildConfigs]
    /\ ret = None

SpecBuild == InitBuild /\ [][CallBuildUrl \/ CallBuildRequestBody \/ BuildAxiosConfig]_vars

\* a call of buildUrl that returned a URL
Built == Returned("buildUrl") /\ ~ret[1].threw

\* the parameter a placeholder :name stands for
RECURSIVE Declared(_, _)
Declared(pathParams, name) ==
    IF pathParams = <<>> THEN None
    ELSE IF Head(pathParams).name = name THEN Some(Head(pathParams))
         ELSE Declared(Tail(pathParams), name)

\* the path from position i on, with every placeholder of a declared path
\* parameter replaced by the encoded value of that parameter
RECURSIVE EveryPlaceholderReplaced(_, _, _, _)
EveryPlaceholderReplaced(path, i, pathParams, cfg) ==
    IF i > Len(path) THEN <<>>
    ELSE LET end == NameEnd(path, i + 1)
             param == Declared(pathParams, SubSeq(path, i + 1, end - 1))
         IN  IF path[i] = ":" /\ end > i + 1 /\ param # None
             THEN encodeURIComponent(StringOf(getParameterValue(param[1], cfg)))
                      \o EveryPlaceholderReplaced(path, end, pathParams, cfg)
             ELSE <<path[i]>> \o EveryPlaceholderReplaced(path, i + 1, pathParams, cfg)

\* C23: in the built URL every placeholder :name of every declared path
\* parameter is replaced by the encoded value of that parameter and none is
\* left, whatever the order of the parameters, also when one name is a
\* prefix of another and when a placeholder occurs twice.
C23_EveryPlaceholderSubstituted ==
    Built =>
        ret[1].value =
            JoinBaseUrl(args.config.baseUrl,
                        AppendQuery(EveryPlaceholderReplaced(
                                        args.endpoint.path, 1,
                                        ParametersIn(args.endpoint, "path"), args.config),
                                    ParametersIn(args.endpoint, "query"), args.config))

\* the same for the endpoints whose path parameters are listed as the
\* parser lists them: once per placeholder, in path order
SubstitutedWhenListedInPathOrder ==
    (/\ Built
     /\ [i \in DOMAIN ParametersIn(args.endpoint, "path") |->
            ParametersIn(args.endpoint, "path")[i].name]
          = ColonMatches(args.endpoint.path, 1))
        => C23_EveryPlaceholderSubstituted

\* C24: the built URL has exactly one slash between the base URL and the
\* path, whether or not the base ends with a slash and whether or not the
\* path starts with one.
C24_OneSlashBetweenBaseAndPath ==
    Built =>
        ret[1].value =
            StripSuffix(args.config.baseUrl, <<"/">>) \o <<"/">>
                \o StripPrefix(BuiltPath(args.endpoint, args.config), <<"/">>)

\* the same when the base ends with a slash or the path starts with one
OneSlashWhenOneSideHasIt ==
    (/\ Built
     /\ \/ args.config.baseUrl[Len(args.config.baseUrl)] = "/"
        \/ args.endpoint.path[1] = "/")
        => C24_OneSlashBetweenBaseAndPath

\* C25: if any body parameter declares a schema, whatever its position
\* among the body parameters, the body is the value generated from that
\* schema with config.paramValues as overrides; otherwise, if there are body
\* parameters, the body maps the name of each to its synthesized value; with
\* no body parameter there is no body.
C25_BodySelection ==
    Returned("buildRequestBody") =>
        LET bodyParams == ParametersIn(args.endpoint, "body")
            withSchema == SelectSeq(bodyParams, LAMBDA p : p.schema # Undefined)
        IN  /\ withSchema # <<>> =>
                  ret[1] = generateDataFromSchema(withSchema[1].schema,
                                                  args.config.paramValues)
            /\ (withSchema = <<>> /\ bodyParams # <<>>) =>
                  /\ ret[1].t = "object"
                  /\ DOMAIN ret[1].v = { bodyParams[i].name : i \in DOMAIN bodyParams }
                  /\ \A i \in DOMAIN bodyParams :
                        ret[1].v[bodyParams[i].name]
                            = getParameterValue(bodyParams[i], args.config)
            /\ bodyParams = <<>> => ret[1] = JsNull

\* the same when the schema is declared by the first body parameter or by
\* none
BodySelectionByFirstParameter ==
    (/\ Returned("buildRequestBody")
     /\ \A i \in DOMAIN ParametersIn(args.endpoint, "body") :
           ParametersIn(args.endpoint, "body")[i].schema # Undefined =>
               ParametersIn(args.endpoint, "body")[1].schema # Undefined)
        => C25_BodySelection

\* a request of testEndpoint that was built
Configured == Returned("axiosConfig") /\ ~ret[1].threw

----------------------------------------------------------------------------
(* analyzers: the paths and parameters of the endpoints the adapters return *)

\* a call of an adapter, directly or through analyzeApp, that returned
Analyzed == pc = "return" /\ ret # None /\ "app" \in DOMAIN args /\ ~ret[1].threw

NoDoubledSlash(path) == \A i \in 1..(Len(path) - 1) : ~(path[i] = "/" /\ path[i + 1] = "/")

NoTrailingSlash(path) == Len(path) > 1 => path[Len(path)] # "/"

\* the endpoints of a host whose path is composed of a base path and a
\* sub-path: those of the routers mounted in an Express stack, and all of a
\* NestJS container
ComposedEndpoints(fn, app) ==
    CASE fn = "analyzeExpressApp" ->
             LET layers == app._router[1].stack.v
             IN  Flatten([i \in DOMAIN layers |->
                             IF layers[i].route = None THEN LayerEndpoints(layers[i])
                             ELSE <<>>])
      [] fn = "analyzeNestApp" -> analyzeNestApp(app).endpoints
      [] OTHER -> <<>>

\* a call of the Express or NestJS adapter on a host it finds routes in
Composing ==
    /\ Analyzed
    /\ \/ /\ args.fn = "analyzeExpressApp"
          /\ args.app._router # None
          /\ IsArray(args.app._router[1].stack)
       \/ args.fn = "analyzeNestApp"

\* the first parameters of the endpoint are the path parameters the parser
\* extracts from its path
ExtractedFromPath(endpoint) ==
    LET extracted == PathParameters(parseRouteParams(endpoint.path))
    IN  /\ Len(endpoint.parameters) >= Len(extracted)
        /\ SubSeq(endpoint.parameters, 1, Len(extracted)) = extracted

\* C27: the path of every endpoint composed of a base path and a sub-path
\* (a router mounted in an Express stack, a NestJS controller path and route
\* path) has no doubled slash and no trailing slash, and the path parameters
\* of the endpoint are extracted from that composed path.
C27_ComposedPathsNormalized ==
    Composing =>
        LET composed == ComposedEndpoints(args.fn, args.app)
        IN  \A i \in DOMAIN composed :
                /\ Includes(ret[1].endpoints, composed[i])
                /\ NoDoubledSlash(composed[i].path)
                /\ NoTrailingSlash(composed[i].path)
                /\ ExtractedFromPath(composed[i])

\* the same without the trailing slash for the Express adapter
ComposedPathsNormalizedButExpressTrailingSlash ==
    Composing =>
        LET composed == ComposedEndpoints(args.fn, args.app)
        IN  \A i \in DOMAIN composed :
                /\ Includes(ret[1].endpoints, composed[i])
                /\ NoDoubledSlash(composed[i].path)
                /\ args.fn = "analyzeNestApp" => NoTrailingSlash(composed[i].path)
                /\ ExtractedFromPath(composed[i])

\* C28: the path of every endpoint an adapter returns is in the notation
\* :name only: a host route declared as {name} yields a path with :name in
\* its place, and every path parameter of the endpoint has its placeholder
\* :name in the path.
C28_CanonicalPlaceholderNotation ==
    Analyzed =>
        \A i \in DOMAIN ret[1].endpoints :
            LET endpoint == ret[1].endpoints[i]
            IN  /\ BracketMatches(endpoint.path, 1) = <<>>
                /\ \A j \in DOMAIN endpoint.parameters :
                      endpoint.parameters[j].in = "path" =>
                          Includes(ColonMatches(endpoint.path, 1), endpoint.parameters[j].name)

\* every path parameter has a placeholder in one of the two notations
PlaceholderInEitherNotation ==
    Analyzed =>
        \A i \in DOMAIN ret[1].endpoints :
            LET endpoint == ret[1].endpoints[i]
            IN  \A j \in DOMAIN endpoint.parameters :
                    endpoint.parameters[j].in = "path" =>
                        Includes(parseRouteParams(endpoint.path), endpoint.parameters[j].name)

\* C29: no endpoint an adapter returns has two parameters with the same
\* name and location, also when the path names a segment twice and when the
\* declared parameter metadata of a NestJS or Fastify route repeats a name
\* extracted from the path.
C29_NoDuplicateParameters ==
    Analyzed =>
        \A i \in DOMAIN ret[1].endpoints :
            LET parameters == ret[1].endpoints[i].parameters
            IN  \A j, k \in DOMAIN parameters :
                    (parameters[j].name = parameters[k].name
                        /\ parameters[j].in = parameters[k].in) => j = k

\* the same for the Express and Fastify adapters on routes that name no
\* segment twice
NoDuplicateParametersWithoutMetadata ==
    (Analyzed /\ args.fn \in {"analyzeExpressApp", "analyzeFastifyApp"})
        => C29_NoDuplicateParameters

----------------------------------------------------------------------------
(* The report of testApiEndpoints *)

\* the text of result.error is the empty string
EmptyError(error) == error.kind = "transport" /\ error.message = ""

\* C30: in every report returned by testApiEndpoints a result with success
\* true has a statusCode and no error, a result with success false has a
\* non-empty error, and a result has a statusCode iff a response was
\* received for its endpoint.
C30_ResultConsistency ==
    report # None =>
        \A i \in DOMAIN report[1] :
            /\ report[1][i].success =>
                   report[1][i].statusCode # None /\ report[1][i].error = None
            /\ ~report[1][i].success =>
                   report[1][i].error # None /\ ~EmptyError(report[1][i].error[1])
            /\ report[1][i].statusCode # None <=> observed[i].kind = "response"

\* the same with an error that is set, empty or not
ResultConsistencyWithErrorSet ==
    report # None =>
        \A i \in DOMAIN report[1] :
            /\ report[1][i].success =>
                   report[1][i].statusCode # None /\ report[1][i].error = None
            /\ ~report[1][i].success => report[1][i].error # None
            /\ report[1][i].statusCode # None <=> observed[i].kind = "response"

====
